---- MODULE Spec2Model ----
(***************************************************************************)
(* terraform-provider-pgrole: the provider's Configure, the three          *)
(* connection factories and the five role-attribute resources              *)
(* (bypassrls, replication, connection_limit, statement_timeout, audit),   *)
(* together with the part of PostgreSQL that interprets the statements     *)
(* the resources send.                                                     *)
(*                                                                         *)
(* Text is a sequence of tokens.  A token is one character ("x", "5", ";") *)
(* or an atomic run of characters that no operation splits ("test",        *)
(* "ALTER ROLE ").                                                         *)
(***************************************************************************)
EXTENDS Integers, Sequences, FiniteSets, TLC

VARIABLES
    kind,      \* the resource type of the resource instance under study
    getDB,     \* the connection factory Configure handed to the resource
    db,        \* PostgreSQL: role name -> its pg_roles row
    tfstate,   \* Terraform's tracked state of the instance: {} or {model}
    last,      \* the last call made on the instance and how it went
    handles,   \* database handles open right now
    config,    \* the provider configuration handed to Configure
    resp,      \* what Configure answered
    running,   \* calls of several resource instances in flight at once
    rowver     \* role name -> the version of its pg_authid row

vars == <<kind, getDB, db, tfstate, last, handles, config, resp, running, rowver>>

----------------------------------------------------------------------------
(* Bounds of the model *)

\* connection limits tried: -2 .. MaxConnLimit, and 50
MaxConnLimit == 0
\* longest statement_timeout text tried, in characters
MaxTimeoutLen == 2

----------------------------------------------------------------------------
(* Characters *)

DQ == "\""
BS == "\\"
SQ == "'"
SEMI == ";"
DASHES == "--"
Digits == {"0", "1", "2", "3", "4", "5", "6", "7", "8", "9"}
\* the characters statement_timeout texts are made of
TimeoutChars == {"5", "s"}

----------------------------------------------------------------------------
(* fmt.Sprintf verbs *)

\* %q of one character: Go escapes the double quote and the backslash
\* with a backslash and leaves every other printable character alone.
GoEscapeChar(c) ==
    IF c = DQ THEN <<BS, DQ>>
    ELSE IF c = BS THEN <<BS, BS>>
    ELSE <<c>>

RECURSIVE GoEscape(_)
GoEscape(s) ==
    IF s = <<>> THEN <<>> ELSE GoEscapeChar(Head(s)) \o GoEscape(Tail(s))

\* %q: a double-quoted Go string literal
FmtQ(s) == <<DQ>> \o GoEscape(s) \o <<DQ>>

\* %d
FmtD(n) == <<ToString(n)>>

\* %s
FmtS(s) == s

----------------------------------------------------------------------------
(* The statements the resources format *)

sqlEnableBypassRLS(role) ==
    <<"ALTER ROLE ">> \o FmtQ(role) \o <<" BYPASSRLS", SEMI>>

sqlDisableBypassRLS(role) ==
    <<"ALTER ROLE ">> \o FmtQ(role) \o <<" NOBYPASSRLS", SEMI>>

sqlEnableReplication(role) ==
    <<"ALTER ROLE ">> \o FmtQ(role) \o <<" REPLICATION", SEMI>>

sqlDisableReplication(role) ==
    <<"ALTER ROLE ">> \o FmtQ(role) \o <<" NOREPLICATION", SEMI>>

sqlSetConnectionLimit(role, connLimit) ==
    <<"ALTER ROLE ">> \o FmtQ(role) \o <<" CONNECTION LIMIT ">>
        \o FmtD(connLimit) \o <<SEMI>>

sqlSetStatementTimeout(role, timeout) ==
    <<"ALTER ROLE ">> \o FmtQ(role) \o <<" SET statement_timeout = ", SQ>>
        \o FmtS(timeout) \o <<SQ, SEMI>>

sqlResetStatementTimeout(role) ==
    <<"ALTER ROLE ">> \o FmtQ(role) \o <<" RESET statement_timeout", SEMI>>

sqlSetAuditLog(role, auditLogOption) ==
    <<"ALTER ROLE ">> \o FmtQ(role) \o <<" SET pgaudit.log = ", SQ>>
        \o FmtS(auditLogOption) \o <<SQ, SEMI>>

sqlResetAuditLog(role) ==
    <<"ALTER ROLE ">> \o FmtQ(role) \o <<" RESET pgaudit.log", SEMI>>

\* The pattern without its anchor at the start and with * for +: any text
\* that ends in "s".
timeoutAttributeRe_unanchored(s) ==
    /\ Len(s) >= 1
    /\ s[Len(s)] = "s"

\* timeoutAttributeRe = ^\d+s$ : one or more digits, then "s", then the end
timeoutAttributeRe(s) ==
    /\ Len(s) >= 2
    /\ s[Len(s)] = "s"
    /\ \A i \in 1 .. Len(s) - 1 : s[i] \in Digits

----------------------------------------------------------------------------
(* PostgreSQL, as far as the statements above reach it *)

ConnLimitInputs == (-2 .. MaxConnLimit) \cup {50}

PgKeywords ==
    {"ALTER ROLE ", "DROP ROLE ", " BYPASSRLS", " NOBYPASSRLS", " REPLICATION",
     " NOREPLICATION", " CONNECTION LIMIT ", " SET statement_timeout = ",
     " RESET statement_timeout", " SET pgaudit.log = ", " RESET pgaudit.log"}

\* The role the provider's sessions log in as (the provider's username).
SessionUser == <<"postgres">>

\* The lexer.  A double quote opens a delimited identifier that runs to the
\* next double quote, a doubled double quote standing for one; a backslash
\* inside it is an ordinary character.  A single quote opens a string
\* constant in the same way.  Two dashes start a comment that runs to the
\* end of the line.
RECURSIVE PgScan(_, _, _, _, _)
PgScan(s, i, mode, buf, out) ==
    IF i > Len(s)
    THEN [ok |-> mode = "top", toks |-> out]
    ELSE LET c == s[i] IN
      CASE mode = "top" ->
             IF c = DASHES THEN [ok |-> TRUE, toks |-> out]
             ELSE IF c = DQ THEN PgScan(s, i + 1, "dq", <<>>, out)
             ELSE IF c = SQ THEN PgScan(s, i + 1, "sq", <<>>, out)
             ELSE IF c = BS THEN [ok |-> FALSE, toks |-> out]
             ELSE IF c = SEMI
               THEN PgScan(s, i + 1, "top", <<>>,
                           Append(out, [t |-> "semi", v |-> <<>>]))
             ELSE IF c \in PgKeywords
               THEN PgScan(s, i + 1, "top", <<>>,
                           Append(out, [t |-> "kw", v |-> <<c>>]))
             ELSE PgScan(s, i + 1, "top", <<>>,
                         Append(out, [t |-> "bare", v |-> <<c>>]))
        [] mode = "dq" ->
             IF c # DQ THEN PgScan(s, i + 1, "dq", Append(buf, c), out)
             ELSE IF i < Len(s) /\ s[i + 1] = DQ
               THEN PgScan(s, i + 2, "dq", Append(buf, DQ), out)
             ELSE IF buf = <<>> THEN [ok |-> FALSE, toks |-> out]
             ELSE PgScan(s, i + 1, "top", <<>>,
                         Append(out, [t |-> "id", v |-> buf]))
        [] mode = "sq" ->
             IF c # SQ THEN PgScan(s, i + 1, "sq", Append(buf, c), out)
             ELSE IF i < Len(s) /\ s[i + 1] = SQ
               THEN PgScan(s, i + 2, "sq", Append(buf, SQ), out)
             ELSE PgScan(s, i + 1, "top", <<>>,
                         Append(out, [t |-> "str", v |-> buf]))

PgLex(s) == PgScan(s, 1, "top", <<>>, <<>>)

\* The token list cut at the semicolons; empty commands are dropped.
RECURSIVE PgSplit(_, _, _)
PgSplit(toks, cur, out) ==
    IF toks = <<>>
    THEN IF cur = <<>> THEN out ELSE Append(out, cur)
    ELSE IF Head(toks).t = "semi"
      THEN PgSplit(Tail(toks), <<>>, IF cur = <<>> THEN out ELSE Append(out, cur))
      ELSE PgSplit(Tail(toks), Append(cur, Head(toks)), out)

PgIsRoleSpec(tok) == tok.t \in {"id", "bare"}

PgIsKw(tok, k) == tok.t = "kw" /\ tok.v = <<k>>

PgSyntaxError == [ok |-> FALSE, verb |-> "", role |-> <<>>, opt |-> "", arg |-> <<>>]

\* The grammar: ALTER ROLE name [option], DROP ROLE name.
PgParse(c) ==
    IF Len(c) < 2 \/ ~PgIsRoleSpec(c[2]) THEN PgSyntaxError
    ELSE IF PgIsKw(c[1], "DROP ROLE ")
      THEN IF Len(c) = 2
           THEN [ok |-> TRUE, verb |-> "DROP", role |-> c[2].v, opt |-> "", arg |-> <<>>]
           ELSE PgSyntaxError
    ELSE IF ~PgIsKw(c[1], "ALTER ROLE ") THEN PgSyntaxError
    ELSE IF Len(c) = 2
      THEN [ok |-> TRUE, verb |-> "ALTER", role |-> c[2].v, opt |-> "", arg |-> <<>>]
    ELSE IF c[3].t # "kw" THEN PgSyntaxError
    ELSE IF c[3].v[1] \in {" BYPASSRLS", " NOBYPASSRLS", " REPLICATION", " NOREPLICATION",
                           " RESET statement_timeout", " RESET pgaudit.log"}
      THEN IF Len(c) = 3
           THEN [ok |-> TRUE, verb |-> "ALTER", role |-> c[2].v, opt |-> c[3].v[1], arg |-> <<>>]
           ELSE PgSyntaxError
    ELSE IF c[3].v[1] = " CONNECTION LIMIT "
      THEN IF Len(c) = 4 /\ c[4].t = "bare"
                /\ \E n \in ConnLimitInputs : <<ToString(n)>> = c[4].v
           THEN [ok |-> TRUE, verb |-> "ALTER", role |-> c[2].v, opt |-> c[3].v[1], arg |-> c[4].v]
           ELSE PgSyntaxError
    ELSE IF c[3].v[1] \in {" SET statement_timeout = ", " SET pgaudit.log = "}
      THEN IF Len(c) = 4 /\ c[4].t = "str"
           THEN [ok |-> TRUE, verb |-> "ALTER", role |-> c[2].v, opt |-> c[3].v[1], arg |-> c[4].v]
           ELSE PgSyntaxError
    ELSE PgSyntaxError

\* statement_timeout accepts an integer with an optional unit
PgValidTimeout(v) ==
    /\ Len(v) >= 1
    /\ \/ \A i \in 1 .. Len(v) : v[i] \in Digits
       \/ /\ Len(v) >= 2
          /\ v[Len(v)] = "s"
          /\ \A i \in 1 .. Len(v) - 1 : v[i] \in Digits

\* pgaudit.log accepts the names of its statement classes
PgValidAuditLog(v) == v \in {<<"none">>, <<"all">>, <<"ddl">>}

PgSetConfig(rolconfig, name, v) ==
    {e \in rolconfig : e[1] # name} \cup {<<name>> \o v}

PgResetConfig(rolconfig, name) == {e \in rolconfig : e[1] # name}

\* One command on database d: [ok, db].
PgApply(d, c) ==
    IF c.role \notin DOMAIN d THEN [ok |-> FALSE, db |-> d]
    ELSE IF c.verb = "DROP"
      THEN IF c.role = SessionUser THEN [ok |-> FALSE, db |-> d]
           ELSE [ok |-> TRUE, db |-> [r \in DOMAIN d \ {c.role} |-> d[r]]]
    ELSE CASE c.opt = "" -> [ok |-> TRUE, db |-> d]
           [] c.opt = " BYPASSRLS" ->
                [ok |-> TRUE, db |-> [d EXCEPT ![c.role].rolbypassrls = TRUE]]
           [] c.opt = " NOBYPASSRLS" ->
                [ok |-> TRUE, db |-> [d EXCEPT ![c.role].rolbypassrls = FALSE]]
           [] c.opt = " REPLICATION" ->
                [ok |-> TRUE, db |-> [d EXCEPT ![c.role].rolreplication = TRUE]]
           [] c.opt = " NOREPLICATION" ->
                [ok |-> TRUE, db |-> [d EXCEPT ![c.role].rolreplication = FALSE]]
           [] c.opt = " CONNECTION LIMIT " ->
                LET n == CHOOSE n \in ConnLimitInputs : <<ToString(n)>> = c.arg IN
                IF n < -1 THEN [ok |-> FALSE, db |-> d]
                ELSE [ok |-> TRUE, db |-> [d EXCEPT ![c.role].rolconnlimit = n]]
           [] c.opt = " SET statement_timeout = " ->
                IF ~PgValidTimeout(c.arg) THEN [ok |-> FALSE, db |-> d]
                ELSE [ok |-> TRUE, db |-> [d EXCEPT ![c.role].rolconfig =
                          PgSetConfig(@, "statement_timeout=", c.arg)]]
           [] c.opt = " RESET statement_timeout" ->
                [ok |-> TRUE, db |-> [d EXCEPT ![c.role].rolconfig =
                          PgResetConfig(@, "statement_timeout=")]]
           [] c.opt = " SET pgaudit.log = " ->
                IF ~PgValidAuditLog(c.arg) THEN [ok |-> FALSE, db |-> d]
                ELSE [ok |-> TRUE, db |-> [d EXCEPT ![c.role].rolconfig =
                          PgSetConfig(@, "pgaudit.log=", c.arg)]]
           [] c.opt = " RESET pgaudit.log" ->
                [ok |-> TRUE, db |-> [d EXCEPT ![c.role].rolconfig =
                          PgResetConfig(@, "pgaudit.log=")]]

RECURSIVE PgRun(_, _, _)
PgRun(d, cmds, i) ==
    IF i > Len(cmds) THEN [ok |-> TRUE, db |-> d]
    ELSE LET r == PgApply(d, cmds[i]) IN
         IF r.ok THEN PgRun(r.db, cmds, i + 1) ELSE r

\* One simple-query message: the whole text is parsed first, its commands
\* run in one implicit transaction, and an error in any of them undoes all.
\* [ok, db, verbs]: verbs are the commands that took effect.
PgExec(d, text) ==
    LET lx == PgLex(text)
        cmds == IF lx.ok THEN PgSplit(lx.toks, <<>>, <<>>) ELSE <<>>
        parsed == [i \in 1 .. Len(cmds) |-> PgParse(cmds[i])]
        run == PgRun(d, parsed, 1)
    IN  IF ~lx.ok \/ (\E i \in 1 .. Len(cmds) : ~parsed[i].ok) \/ ~run.ok
        THEN [ok |-> FALSE, db |-> d, verbs |-> {}]
        ELSE [ok |-> TRUE, db |-> run.db,
              verbs |-> {parsed[i].verb : i \in 1 .. Len(cmds)}]

\* current_setting(name) in a new session of SessionUser: the role's own
\* setting when it has one, else the server's default.
PgCurrentSetting(d, name, default) ==
    IF \E e \in d[SessionUser].rolconfig : e[1] = name
    THEN Tail(CHOOSE e \in d[SessionUser].rolconfig : e[1] = name)
    ELSE default

\* The rows of each read query, the role name a bound parameter.
PgSelectBypassRLS(d, role) ==
    IF role \in DOMAIN d THEN {d[role].rolbypassrls} ELSE {}

PgSelectReplication(d, role) ==
    IF role \in DOMAIN d THEN {d[role].rolreplication} ELSE {}

PgSelectConnLimit(d, role) ==
    IF role \in DOMAIN d THEN {d[role].rolconnlimit} ELSE {}

PgSelectStatementTimeout(d, role) ==
    IF role \in DOMAIN d
    THEN {e \in d[role].rolconfig : e[1] = "statement_timeout="}
    ELSE {}

\* The query reading the role's own pgaudit.log entry of rolconfig.
PgSelectAuditLog_perRole(d, role) ==
    IF role \in DOMAIN d
    THEN {IF \E e \in d[role].rolconfig : e[1] = "pgaudit.log="
          THEN Tail(CHOOSE e \in d[role].rolconfig : e[1] = "pgaudit.log=")
          ELSE <<"none">>}
    ELSE {}

PgSelectAuditLog(d, role) ==
    IF role \in DOMAIN d
    THEN {PgCurrentSetting(d, "pgaudit.log=", <<"none">>)}
    ELSE {}

----------------------------------------------------------------------------
(* The connection factories *)

Factories ==
    {"GetStandardPostgresGetter", "GetDatabaseGetter",
     "GetDatabaseGetterWithImpersonation"}

\* What can happen inside each factory: the steps that can return an error.
ConnOutcomes(g) ==
    CASE g = "GetStandardPostgresGetter" -> {"ok", "openErr", "pingErr"}
      [] g = "GetDatabaseGetter" -> {"ok", "openErr"}
      [] g = "GetDatabaseGetterWithImpersonation" ->
            {"ok", "tokenErr", "clientErr", "parseErr", "openErr"}

\* The factory without the Close of a handle whose ping failed.
GetStandardPostgresGetter_noClose(c) ==
    IF c = "openErr" THEN [handle |-> FALSE, opened |-> 0, closed |-> 0]
    ELSE IF c = "pingErr" THEN [handle |-> FALSE, opened |-> 1, closed |-> 0]
    ELSE [handle |-> TRUE, opened |-> 1, closed |-> 0]

\* sql.Open, then PingContext; a handle whose ping fails is closed before
\* the error is returned.  [handle, opened, closed]
GetStandardPostgresGetter(c) ==
    IF c = "openErr" THEN [handle |-> FALSE, opened |-> 0, closed |-> 0]
    ELSE IF c = "pingErr" THEN [handle |-> FALSE, opened |-> 1, closed |-> 1]
    ELSE [handle |-> TRUE, opened |-> 1, closed |-> 0]

\* postgres.Open
GetDatabaseGetter(c) ==
    IF c = "ok" THEN [handle |-> TRUE, opened |-> 1, closed |-> 0]
    ELSE [handle |-> FALSE, opened |-> 0, closed |-> 0]

\* token source, HTTP client, url.Parse, then OpenPostgresURL
GetDatabaseGetterWithImpersonation(c) ==
    IF c = "ok" THEN [handle |-> TRUE, opened |-> 1, closed |-> 0]
    ELSE [handle |-> FALSE, opened |-> 0, closed |-> 0]

\* r.getDB(ctx)
F(g, c) ==
    CASE g = "GetStandardPostgresGetter" -> GetStandardPostgresGetter(c)
      [] g = "GetDatabaseGetter" -> GetDatabaseGetter(c)
      [] g = "GetDatabaseGetterWithImpersonation" ->
            GetDatabaseGetterWithImpersonation(c)

\* What a call meets outside the provider: how the factory fares, whether
\* the server fails the statement for a reason of its own (permission,
\* cancelled context, lost connection), whether State.Set reports an error.
HappyEnv == [conn |-> "ok", sql |-> "ok", set |-> "ok"]

\* A call returns at its first error, so at most one thing goes wrong in it.
Envs(g) ==
    {[HappyEnv EXCEPT !.conn = c] : c \in ConnOutcomes(g)}
    \cup {[HappyEnv EXCEPT !.sql = "err"], [HappyEnv EXCEPT !.set = "err"]}

----------------------------------------------------------------------------
(* The handlers.  Each answers                                             *)
(*   [diag, state, db, conns, execs, opened, closed, verbs]:               *)
(* the error diagnostic ("" when there is none), the state Terraform       *)
(* tracks after the call, the database after the call, how often getDB and *)
(* ExecContext/QueryRowContext were called, the handles opened and closed, *)
(* and the kinds of command that took effect.                              *)

\* Plan.Get / State.Get reported an error: return before anything else.
GetFailed(prior, d) ==
    [diag |-> "get", state |-> prior, db |-> d, conns |-> 0, execs |-> 0,
     opened |-> 0, closed |-> 0, verbs |-> {}]

\* The body without the return after a failed ExecContext: the statement
\* is sent a second time and the state is set all the same.
ExecCall_noReturn(sqlstr, after, sets, prior, d, g, env) ==
    LET c == F(g, env.conn)
        x == IF env.sql = "ok" THEN PgExec(d, sqlstr)
             ELSE [ok |-> FALSE, db |-> d, verbs |-> {}]
    IN  IF ~c.handle
        THEN [diag |-> "conn", state |-> prior, db |-> d, conns |-> 1, execs |-> 0,
              opened |-> c.opened, closed |-> c.closed, verbs |-> {}]
        ELSE IF ~x.ok
        THEN [diag |-> "sql", state |-> after, db |-> d, conns |-> 1, execs |-> 2,
              opened |-> c.opened, closed |-> c.closed + 1, verbs |-> {}]
        ELSE IF sets /\ env.set = "err"
        THEN [diag |-> "set", state |-> prior, db |-> x.db, conns |-> 1, execs |-> 1,
              opened |-> c.opened, closed |-> c.closed + 1, verbs |-> x.verbs]
        ELSE [diag |-> "", state |-> after, db |-> x.db, conns |-> 1, execs |-> 1,
              opened |-> c.opened, closed |-> c.closed + 1, verbs |-> x.verbs]

\* The body Create, Update and Delete share: getDB, defer Close, ExecContext,
\* then (sets) State.Set of the plan.  after is the state on success.
ExecCall(sqlstr, after, sets, prior, d, g, env) ==
    LET c == F(g, env.conn)
        x == IF env.sql = "ok" THEN PgExec(d, sqlstr)
             ELSE [ok |-> FALSE, db |-> d, verbs |-> {}]
    IN  IF ~c.handle
        THEN [diag |-> "conn", state |-> prior, db |-> d, conns |-> 1, execs |-> 0,
              opened |-> c.opened, closed |-> c.closed, verbs |-> {}]
        ELSE IF ~x.ok
        THEN [diag |-> "sql", state |-> prior, db |-> d, conns |-> 1, execs |-> 1,
              opened |-> c.opened, closed |-> c.closed + 1, verbs |-> {}]
        ELSE IF sets /\ env.set = "err"
        THEN [diag |-> "set", state |-> prior, db |-> x.db, conns |-> 1, execs |-> 1,
              opened |-> c.opened, closed |-> c.closed + 1, verbs |-> x.verbs]
        ELSE [diag |-> "", state |-> after, db |-> x.db, conns |-> 1, execs |-> 1,
              opened |-> c.opened, closed |-> c.closed + 1, verbs |-> x.verbs]

\* The body the Reads share: getDB, defer Close, QueryRowContext(...).Scan,
\* then State.Set of the refreshed model.
QueryCall(scanErr, refreshed, prior, d, g, env) ==
    LET c == F(g, env.conn) IN
        IF ~c.handle
        THEN [diag |-> "conn", state |-> prior, db |-> d, conns |-> 1, execs |-> 0,
              opened |-> c.opened, closed |-> c.closed, verbs |-> {}]
        ELSE IF env.sql = "err" \/ scanErr
        THEN [diag |-> "sql", state |-> prior, db |-> d, conns |-> 1, execs |-> 1,
              opened |-> c.opened, closed |-> c.closed + 1, verbs |-> {}]
        ELSE IF env.set = "err"
        THEN [diag |-> "set", state |-> prior, db |-> d, conns |-> 1, execs |-> 1,
              opened |-> c.opened, closed |-> c.closed + 1, verbs |-> {}]
        ELSE [diag |-> "", state |-> {refreshed}, db |-> d, conns |-> 1, execs |-> 1,
              opened |-> c.opened, closed |-> c.closed + 1, verbs |-> {}]

\* An ImportState that reads the attribute from the database instead of
\* setting a placeholder.
Imported_viaQuery(model, d) ==
    [diag |-> "", state |-> {model}, db |-> d, conns |-> 1, execs |-> 1,
     opened |-> 1, closed |-> 1, verbs |-> {}]

\* ImportState: SetAttribute of the placeholder, then the ID as the role.
Imported(model, d) ==
    [diag |-> "", state |-> {model}, db |-> d, conns |-> 0, execs |-> 0,
     opened |-> 0, closed |-> 0, verbs |-> {}]

(* pgrole_bypassrls.  enabled is Optional and the model's field a Go bool: *)
(* a plan is [role, enabled], enabled {} when null, and Plan.Get of a null *)
(* into a bool is an error.                                                *)

bypassrlsResource_Create(plan, prior, d, g, env) ==
    IF plan.enabled = {} THEN GetFailed(prior, d)
    ELSE LET enabled == CHOOSE b \in plan.enabled : TRUE
             sqlstr == IF enabled THEN sqlEnableBypassRLS(plan.role)
                       ELSE sqlDisableBypassRLS(plan.role)
         IN  ExecCall(sqlstr, {[role |-> plan.role, enabled |-> enabled]}, TRUE,
                      prior, d, g, env)

\* A Read that takes a missing row for a role without BYPASSRLS.
bypassrlsResource_Read_noRowIsFalse(state, d, g, env) ==
    LET rows == PgSelectBypassRLS(d, state.role)
        enabled == IF rows = {} THEN FALSE ELSE CHOOSE b \in rows : TRUE
    IN  QueryCall(FALSE, [state EXCEPT !.enabled = enabled], {state}, d, g, env)

bypassrlsResource_Read(state, d, g, env) ==
    LET rows == PgSelectBypassRLS(d, state.role)
        enabled == CHOOSE b \in rows : TRUE
    IN  QueryCall(rows = {}, [state EXCEPT !.enabled = enabled], {state}, d, g, env)

bypassrlsResource_Update(plan, prior, d, g, env) ==
    IF plan.enabled = {} THEN GetFailed(prior, d)
    ELSE LET enabled == CHOOSE b \in plan.enabled : TRUE
             sqlstr == IF enabled THEN sqlEnableBypassRLS(plan.role)
                       ELSE sqlDisableBypassRLS(plan.role)
         IN  ExecCall(sqlstr, {[role |-> plan.role, enabled |-> enabled]}, TRUE,
                      prior, d, g, env)

bypassrlsResource_Delete(state, d, g, env) ==
    ExecCall(sqlDisableBypassRLS(state.role), {}, FALSE, {state}, d, g, env)

bypassrlsResource_ImportState(id, d) ==
    Imported([role |-> id, enabled |-> FALSE], d)

(* pgrole_replication *)

replicationResource_Create(plan, prior, d, g, env) ==
    IF plan.enabled = {} THEN GetFailed(prior, d)
    ELSE LET enabled == CHOOSE b \in plan.enabled : TRUE
             sqlstr == IF enabled THEN sqlEnableReplication(plan.role)
                       ELSE sqlDisableReplication(plan.role)
         IN  ExecCall(sqlstr, {[role |-> plan.role, enabled |-> enabled]}, TRUE,
                      prior, d, g, env)

replicationResource_Read(state, d, g, env) ==
    LET rows == PgSelectReplication(d, state.role)
        enabled == CHOOSE b \in rows : TRUE
    IN  QueryCall(rows = {}, [state EXCEPT !.enabled = enabled], {state}, d, g, env)

replicationResource_Update(plan, prior, d, g, env) ==
    IF plan.enabled = {} THEN GetFailed(prior, d)
    ELSE LET enabled == CHOOSE b \in plan.enabled : TRUE
             sqlstr == IF enabled THEN sqlEnableReplication(plan.role)
                       ELSE sqlDisableReplication(plan.role)
         IN  ExecCall(sqlstr, {[role |-> plan.role, enabled |-> enabled]}, TRUE,
                      prior, d, g, env)

replicationResource_Delete(state, d, g, env) ==
    ExecCall(sqlDisableReplication(state.role), {}, FALSE, {state}, d, g, env)

replicationResource_ImportState(id, d) ==
    Imported([role |-> id, enabled |-> FALSE], d)

(* pgrole_connection_limit: a plan is [role, connection_limit] *)

connectionLimitResource_Create(plan, prior, d, g, env) ==
    ExecCall(sqlSetConnectionLimit(plan.role, plan.connection_limit), {plan}, TRUE,
             prior, d, g, env)

connectionLimitResource_Read(state, d, g, env) ==
    LET rows == PgSelectConnLimit(d, state.role)
        connLimit == CHOOSE n \in rows : TRUE
    IN  QueryCall(rows = {}, [state EXCEPT !.connection_limit = connLimit],
                  {state}, d, g, env)

connectionLimitResource_Update(plan, prior, d, g, env) ==
    ExecCall(sqlSetConnectionLimit(plan.role, plan.connection_limit), {plan}, TRUE,
             prior, d, g, env)

connectionLimitResource_Delete(state, d, g, env) ==
    ExecCall(sqlSetConnectionLimit(state.role, -1), {}, FALSE, {state}, d, g, env)

connectionLimitResource_ImportState(id, d) ==
    Imported([role |-> id, connection_limit |-> -1], d)

(* pgrole_statement_timeout: a plan is [role, timeout] *)

\* The schema's validator on timeout; the framework runs it on the
\* configuration and calls Create or Update only with a plan that passed.
statementTimeoutResource_Schema(plan) == timeoutAttributeRe(plan.timeout)

\* The answer to a configuration the schema rejects: no handler runs.
Rejected(prior, d) ==
    [diag |-> "schema", state |-> prior, db |-> d, conns |-> 0, execs |-> 0,
     opened |-> 0, closed |-> 0, verbs |-> {}]

statementTimeoutResource_Create(plan, prior, d, g, env) ==
    ExecCall(sqlSetStatementTimeout(plan.role, plan.timeout), {plan}, TRUE,
             prior, d, g, env)

\* The scanned setting kept whole, its name included.
TrimPrefix_keep(s, prefix) == s

\* strings.TrimPrefix
TrimPrefix(s, prefix) == IF s # <<>> /\ s[1] = prefix THEN Tail(s) ELSE s

\* A Read that tells a role that is missing from one without the setting.
statementTimeoutResource_Read_missingFatal(state, d, g, env) ==
    LET rows == PgSelectStatementTimeout(d, state.role)
        timeoutSetting == CHOOSE e \in rows : TRUE
        timeout == IF rows = {} THEN <<"0", "s">>
                   ELSE TrimPrefix(timeoutSetting, "statement_timeout=")
    IN  QueryCall(state.role \notin DOMAIN d, [state EXCEPT !.timeout = timeout],
                  {state}, d, g, env)

\* sql.ErrNoRows is read as "0s"; any other error is a diagnostic.
statementTimeoutResource_Read(state, d, g, env) ==
    LET rows == PgSelectStatementTimeout(d, state.role)
        timeoutSetting == CHOOSE e \in rows : TRUE
        timeout == IF rows = {} THEN <<"0", "s">>
                   ELSE TrimPrefix(timeoutSetting, "statement_timeout=")
    IN  QueryCall(FALSE, [state EXCEPT !.timeout = timeout], {state}, d, g, env)

statementTimeoutResource_Update(plan, prior, d, g, env) ==
    ExecCall(sqlSetStatementTimeout(plan.role, plan.timeout), {plan}, TRUE,
             prior, d, g, env)

statementTimeoutResource_Delete(state, d, g, env) ==
    ExecCall(sqlResetStatementTimeout(state.role), {}, FALSE, {state}, d, g, env)

\* An ImportState whose placeholder is 0 without a unit.
statementTimeoutResource_ImportState_bareZero(id, d) ==
    Imported([role |-> id, timeout |-> <<"0">>], d)

statementTimeoutResource_ImportState(id, d) ==
    Imported([role |-> id, timeout |-> <<"0", "s">>], d)

(* pgrole_audit: a plan is [role, audit_log_option] *)

auditResource_Create(plan, prior, d, g, env) ==
    ExecCall(sqlSetAuditLog(plan.role, plan.audit_log_option), {plan}, TRUE,
             prior, d, g, env)

auditResource_Read(state, d, g, env) ==
    LET rows == PgSelectAuditLog(d, state.role)
        auditLogOption == CHOOSE v \in rows : TRUE
    IN  QueryCall(rows = {}, [state EXCEPT !.audit_log_option = auditLogOption],
                  {state}, d, g, env)

auditResource_Update(plan, prior, d, g, env) ==
    ExecCall(sqlSetAuditLog(plan.role, plan.audit_log_option), {plan}, TRUE,
             prior, d, g, env)

auditResource_Delete(state, d, g, env) ==
    ExecCall(sqlResetAuditLog(state.role), {}, FALSE, {state}, d, g, env)

auditResource_ImportState(id, d) ==
    Imported([role |-> id, audit_log_option |-> <<"none">>], d)

----------------------------------------------------------------------------
(* The framework's routing of a call to the resource's method *)

Kinds == {"bypassrls", "replication", "connection_limit", "statement_timeout", "audit"}

Create(k, plan, prior, d, g, env) ==
    CASE k = "bypassrls" -> bypassrlsResource_Create(plan, prior, d, g, env)
      [] k = "replication" -> replicationResource_Create(plan, prior, d, g, env)
      [] k = "connection_limit" -> connectionLimitResource_Create(plan, prior, d, g, env)
      [] k = "statement_timeout" ->
            IF statementTimeoutResource_Schema(plan)
            THEN statementTimeoutResource_Create(plan, prior, d, g, env)
            ELSE Rejected(prior, d)
      [] k = "audit" -> auditResource_Create(plan, prior, d, g, env)

Read(k, state, d, g, env) ==
    CASE k = "bypassrls" -> bypassrlsResource_Read(state, d, g, env)
      [] k = "replication" -> replicationResource_Read(state, d, g, env)
      [] k = "connection_limit" -> connectionLimitResource_Read(state, d, g, env)
      [] k = "statement_timeout" -> statementTimeoutResource_Read(state, d, g, env)
      [] k = "audit" -> auditResource_Read(state, d, g, env)

Update(k, plan, prior, d, g, env) ==
    CASE k = "bypassrls" -> bypassrlsResource_Update(plan, prior, d, g, env)
      [] k = "replication" -> replicationResource_Update(plan, prior, d, g, env)
      [] k = "connection_limit" -> connectionLimitResource_Update(plan, prior, d, g, env)
      [] k = "statement_timeout" ->
            IF statementTimeoutResource_Schema(plan)
            THEN statementTimeoutResource_Update(plan, prior, d, g, env)
            ELSE Rejected(prior, d)
      [] k = "audit" -> auditResource_Update(plan, prior, d, g, env)

Delete(k, state, d, g, env) ==
    CASE k = "bypassrls" -> bypassrlsResource_Delete(state, d, g, env)
      [] k = "replication" -> replicationResource_Delete(state, d, g, env)
      [] k = "connection_limit" -> connectionLimitResource_Delete(state, d, g, env)
      [] k = "statement_timeout" -> statementTimeoutResource_Delete(state, d, g, env)
      [] k = "audit" -> auditResource_Delete(state, d, g, env)

ImportState(k, id, d) ==
    CASE k = "bypassrls" -> bypassrlsResource_ImportState(id, d)
      [] k = "replication" -> replicationResource_ImportState(id, d)
      [] k = "connection_limit" -> connectionLimitResource_ImportState(id, d)
      [] k = "statement_timeout" -> statementTimeoutResource_ImportState(id, d)
      [] k = "audit" -> auditResource_ImportState(id, d)

----------------------------------------------------------------------------
(* What is tried *)

\* A role name that closes the quoting of %q: x"; DROP ROLE x; --
Payload == <<"x", DQ, SEMI, "DROP ROLE ", "x", SEMI, DASHES>>

RoleInputs == {<<"test">>, <<"x">>, <<"x", BS>>, Payload}

TimeoutInputs == UNION {[1 .. n -> TimeoutChars] : n \in 0 .. MaxTimeoutLen}

AuditInputs == {<<"none">>, <<"all">>, <<"bogus">>}

Plans(k) ==
    CASE k \in {"bypassrls", "replication"} ->
            [role : RoleInputs, enabled : {{}, {TRUE}, {FALSE}}]
      [] k = "connection_limit" ->
            [role : RoleInputs, connection_limit : ConnLimitInputs]
      [] k = "statement_timeout" -> [role : RoleInputs, timeout : TimeoutInputs]
      [] k = "audit" -> [role : RoleInputs, audit_log_option : AuditInputs]

\* The attribute a resource of kind k manages, as the catalog holds it
Attr(k, row) ==
    CASE k = "bypassrls" -> row.rolbypassrls
      [] k = "replication" -> row.rolreplication
      [] k = "connection_limit" -> row.rolconnlimit
      [] k = "statement_timeout" -> {e \in row.rolconfig : e[1] = "statement_timeout="}
      [] k = "audit" -> {e \in row.rolconfig : e[1] = "pgaudit.log="}

\* The attribute's value in a tracked model
Tracked(k, m) ==
    CASE k \in {"bypassrls", "replication"} -> m.enabled
      [] k = "connection_limit" -> m.connection_limit
      [] k = "statement_timeout" -> m.timeout
      [] k = "audit" -> m.audit_log_option

DefaultRow ==
    [rolbypassrls |-> FALSE, rolreplication |-> FALSE, rolconnlimit |-> -1,
     rolconfig |-> {}]

\* The database before the provider touches it: the superuser the provider
\* logs in as, and three roles made by other means.
InitDB ==
    (SessionUser :> [DefaultRow EXCEPT !.rolbypassrls = TRUE, !.rolreplication = TRUE])
    @@ (<<"test">> :> DefaultRow)
    @@ (<<"x">> :> [rolbypassrls |-> TRUE, rolreplication |-> TRUE, rolconnlimit |-> 50,
                    rolconfig |-> {<<"statement_timeout=", "5", "s">>,
                                   <<"pgaudit.log=", "all">>}])
    @@ (<<"x", BS>> :> DefaultRow)

\* What another client of the database may set a role's attribute to
OutOfBandRows(k, row) ==
    CASE k = "bypassrls" -> {[row EXCEPT !.rolbypassrls = b] : b \in BOOLEAN}
      [] k = "replication" -> {[row EXCEPT !.rolreplication = b] : b \in BOOLEAN}
      [] k = "connection_limit" ->
            {[row EXCEPT !.rolconnlimit = n] : n \in ConnLimitInputs \ {-2}}
      [] k = "statement_timeout" ->
            {[row EXCEPT !.rolconfig = PgResetConfig(@, "statement_timeout=")]}
            \cup {[row EXCEPT !.rolconfig = PgSetConfig(@, "statement_timeout=", v)] :
                    v \in {<<"5">>, <<"5", "s">>}}
      [] k = "audit" ->
            {[row EXCEPT !.rolconfig = PgResetConfig(@, "pgaudit.log=")]}
            \cup {[row EXCEPT !.rolconfig = PgSetConfig(@, "pgaudit.log=", v)] :
                    v \in {<<"ddl">>}}

\* The roles another client alters: the managed ones, and for pgaudit.log
\* the role the provider logs in as, whose sessions the audit Read runs in.
OutOfBandRoles(k) ==
    IF k = "audit" THEN {SessionUser} ELSE {<<"test">>, <<"x">>}

----------------------------------------------------------------------------
(* The resource instance's life *)

NoCall ==
    [op |-> "none", diag |-> "", prev |-> "other", env |-> HappyEnv, conns |-> 0,
     execs |-> 0, opened |-> 0, closed |-> 0, verbs |-> {}]

\* What last.prev keeps, for a Read or a Delete, of the call before it: a
\* Create or an ImportState that ended without a diagnostic, or anything else.
Prev(op, l) ==
    IF op \in {"Read", "Delete"} /\ l.diag = "" /\ l.op \in {"Create", "ImportState"}
    THEN l.op
    ELSE "other"

\* A plan that is turned down before getDB is called meets no environment.
EnvsFor(k, plan, g) ==
    IF \/ k \in {"bypassrls", "replication"} /\ plan.enabled = {}
       \/ k = "statement_timeout" /\ ~statementTimeoutResource_Schema(plan)
    THEN {HappyEnv}
    ELSE Envs(g)

\* The resource instances tried, each with the factory its provider was
\* configured with.
Deployments ==
    {<<"bypassrls", "GetStandardPostgresGetter">>,
     <<"replication", "GetDatabaseGetter">>,
     <<"connection_limit", "GetDatabaseGetterWithImpersonation">>,
     <<"statement_timeout", "GetStandardPostgresGetter">>,
     <<"audit", "GetStandardPostgresGetter">>}

NoConfig == <<>>

Init ==
    /\ \E dep \in Deployments : kind = dep[1] /\ getDB = dep[2]
    /\ db = InitDB
    /\ tfstate = {}
    /\ last = NoCall
    /\ handles = 0
    /\ config = NoConfig
    /\ resp = NoConfig
    /\ running = <<>>
    /\ rowver = <<>>

\* The call's answer becomes the state of the world; last keeps what the
\* call met and how it went.
Answer(op, env, r) ==
    /\ tfstate' = r.state
    /\ db' = r.db
    /\ handles' = handles + r.opened - r.closed
    /\ last' = [op |-> op, diag |-> r.diag,
                prev |-> Prev(op, last), env |-> env,
                conns |-> r.conns, execs |-> r.execs, opened |-> r.opened,
                closed |-> r.closed, verbs |-> r.verbs]
    /\ UNCHANGED <<kind, getDB, config, resp, running, rowver>>

CallCreate ==
    /\ kind \in Kinds
    /\ tfstate = {}
    /\ \E plan \in Plans(kind) : \E env \in EnvsFor(kind, plan, getDB) :
          Answer("Create", env, Create(kind, plan, tfstate, db, getDB, env))

CallRead ==
    /\ kind \in Kinds
    /\ \E state \in tfstate, env \in Envs(getDB) :
          Answer("Read", env, Read(kind, state, db, getDB, env))

CallUpdate ==
    /\ kind \in Kinds
    /\ tfstate # {}
    /\ \E plan \in Plans(kind) : \E env \in EnvsFor(kind, plan, getDB) :
          Answer("Update", env, Update(kind, plan, tfstate, db, getDB, env))

\* Delete sets no state: the framework removes it when Delete reports no error.
CallDelete ==
    /\ kind \in Kinds
    /\ \E state \in tfstate, env \in {e \in Envs(getDB) : e.set = "ok"} :
          Answer("Delete", env, Delete(kind, state, db, getDB, env))

CallImportState ==
    /\ kind \in Kinds
    /\ tfstate = {}
    /\ \E id \in RoleInputs : Answer("ImportState", HappyEnv, ImportState(kind, id, db))

\* Another client of the database alters the attribute of a role.
OutOfBand ==
    /\ kind \in Kinds
    /\ \E r \in OutOfBandRoles(kind) \cap DOMAIN db :
        \E row \in OutOfBandRows(kind, db[r]) :
          /\ row # db[r]
          /\ db' = [db EXCEPT ![r] = row]
    /\ last' = [NoCall EXCEPT !.op = "OutOfBand"]
    /\ UNCHANGED <<kind, getDB, tfstate, handles, config, resp, running, rowver>>

Next ==
    \/ CallCreate
    \/ CallRead
    \/ CallUpdate
    \/ CallDelete
    \/ CallImportState
    \/ OutOfBand

Spec == Init /\ [][Next]_vars

\* The instance's life in a database that only the provider writes to.
NextProviderOnly ==
    \/ CallCreate
    \/ CallRead
    \/ CallUpdate
    \/ CallDelete
    \/ CallImportState

SpecProviderOnly == Init /\ [][NextProviderOnly]_vars

\* An audit instance whose audit_log_option is any string: the schema of the
\* attribute has no validator.  Values with a single quote are among them.
AuditOptions ==
    AuditInputs
    \cup {<<"all", SQ>>, <<"all", SQ, "b">>,
          <<"ddl", SQ, SEMI, "DROP ROLE ", "test", SEMI, DASHES>>}

AuditPlans == [role : RoleInputs, audit_log_option : AuditOptions]

InitAudit ==
    /\ kind = "audit"
    /\ getDB = "GetStandardPostgresGetter"
    /\ db = InitDB
    /\ tfstate = {}
    /\ last = NoCall
    /\ handles = 0
    /\ config = <<>>
    /\ resp = <<>>
    /\ running = <<>>
    /\ rowver = <<>>

CallAuditCreate ==
    /\ tfstate = {}
    /\ \E plan \in AuditPlans :
          Answer("Create", HappyEnv, Create(kind, plan, tfstate, db, getDB, HappyEnv))

CallAuditUpdate ==
    /\ tfstate # {}
    /\ \E plan \in AuditPlans :
          Answer("Update", HappyEnv, Update(kind, plan, tfstate, db, getDB, HappyEnv))

CallAuditDelete ==
    \E state \in tfstate :
        Answer("Delete", HappyEnv, Delete(kind, state, db, getDB, HappyEnv))

NextAudit ==
    \/ CallAuditCreate
    \/ CallAuditUpdate
    \/ CallAuditDelete

SpecAudit == InitAudit /\ [][NextAudit]_vars

----------------------------------------------------------------------------
(* Properties of the resources, checked under Spec *)

CRUD == {"Create", "Read", "Update", "Delete"}

\* The value a role's attribute has in the database, in the form a model
\* tracks it: an unset statement_timeout is 0s, an unset pgaudit.log none.
Actual(k, row) ==
    CASE k = "bypassrls" -> row.rolbypassrls
      [] k = "replication" -> row.rolreplication
      [] k = "connection_limit" -> row.rolconnlimit
      [] k = "statement_timeout" ->
            IF Attr(k, row) = {} THEN <<"0", "s">>
            ELSE Tail(CHOOSE e \in Attr(k, row) : TRUE)
      [] k = "audit" ->
            IF Attr(k, row) = {} THEN <<"none">>
            ELSE Tail(CHOOSE e \in Attr(k, row) : TRUE)

\* Every Create or Update that can be made on the instance now, with the
\* plan, what the call meets and what it answers.
PlanCallsNow ==
    {[op |-> IF tfstate = {} THEN "Create" ELSE "Update", plan |-> pe[1], env |-> pe[2],
      r |-> IF tfstate = {} THEN Create(kind, pe[1], tfstate, db, getDB, pe[2])
            ELSE Update(kind, pe[1], tfstate, db, getDB, pe[2])] :
        pe \in Plans(kind) \X Envs(getDB)}

\* C1: for every existing role and each of the five resources, a successful
\* Create of value v followed by a successful Read on the same role leaves
\* the tracked attribute equal to v.
C1_CreateReadRoundTrip ==
    [][(/\ last.op = "Create" /\ last.diag = ""
        /\ last'.op = "Read" /\ last'.diag = ""
        /\ \A m \in tfstate : m.role \in DOMAIN db)
       => \A m \in tfstate : \A n \in tfstate' :
             n.role = m.role /\ Tracked(kind, n) = Tracked(kind, m)]_vars

\* C2: after a successful Create of pgrole_bypassrls or pgrole_replication
\* with role r and enabled = b, the flag of role r in the database equals b
\* and the tracked state holds role = r and enabled = b.
C2_CreateSetsFlag ==
    (kind \in {"bypassrls", "replication"} /\ tfstate = {}) =>
        \A plan \in Plans(kind) :
            LET r == Create(kind, plan, tfstate, db, getDB, HappyEnv) IN
            r.diag = "" =>
                /\ plan.role \in DOMAIN r.db
                /\ plan.enabled = {Attr(kind, r.db[plan.role])}
                /\ r.state = {[role |-> plan.role,
                               enabled |-> Attr(kind, r.db[plan.role])]}

\* C3: a successful Delete, from any prior value, leaves the tracked role's
\* attribute at its PostgreSQL default and the role itself in existence.
C3_DeleteResetsToDefault ==
    \A state \in tfstate :
        LET r == Delete(kind, state, db, getDB, HappyEnv) IN
        r.diag = "" =>
            /\ state.role \in DOMAIN r.db
            /\ Attr(kind, r.db[state.role]) = Attr(kind, DefaultRow)

\* C4: no sequence of Create, Read, Update, Delete and Import calls changes
\* the set of roles in the database, and every statement that takes effect
\* is an ALTER ROLE.
C4_RolesUnchanged ==
    /\ DOMAIN db = DOMAIN InitDB
    /\ last.verbs \subseteq {"ALTER"}

\* C5: Import of an existing role followed by a successful Read leaves the
\* tracked attribute equal to the role's actual value in the database,
\* whatever placeholder Import had set.
C5_ImportReadConverges ==
    [][(/\ last.op = "ImportState" /\ last.diag = ""
        /\ last'.op = "Read" /\ last'.diag = ""
        /\ \A m \in tfstate : m.role \in DOMAIN db)
       => \A n \in tfstate' :
             /\ n.role \in DOMAIN db'
             /\ Tracked(kind, n) = Actual(kind, db'[n.role])]_vars

\* C6: a statement_timeout plan whose timeout is not one or more digits
\* followed by "s" is turned down with an error, without a connection and
\* without a statement; only matching values reach sqlSetStatementTimeout.
C6_MalformedTimeoutRejected ==
    kind = "statement_timeout" =>
        \A c \in PlanCallsNow :
            LET t == c.plan.timeout
                matches == /\ Len(t) >= 2
                           /\ t[Len(t)] = "s"
                           /\ \A i \in 1 .. Len(t) - 1 :
                                t[i] \in {"0", "1", "2", "3", "4", "5", "6", "7", "8", "9"}
            IN  /\ ~matches =>
                    /\ c.r.diag # ""
                    /\ c.r.conns = 0 /\ c.r.opened = 0
                    /\ c.r.execs = 0 /\ c.r.verbs = {}
                    /\ c.r.db = db /\ c.r.state = tfstate
                /\ c.r.execs > 0 => matches

\* C6 happens: a Create of a statement_timeout resource was turned down by
\* the schema, and nothing was opened or sent.
C6_Witness ==
    /\ kind = "statement_timeout"
    /\ last.op = "Create"
    /\ last.diag = "schema"
    /\ last.conns = 0
    /\ last.execs = 0

\* C9: in every Create, Read, Update and Delete, when the connection cannot
\* be had or the statement or query fails, the call reports an error, leaves
\* the tracked state as it was, and tries neither a second time.
C9_FailureAbortsCall ==
    [][last'.op \in CRUD =>
        /\ last'.conns <= 1
        /\ last'.execs <= 1
        /\ (last'.env.conn # "ok" \/ last'.env.sql # "ok") =>
              (last'.diag # "" /\ tfstate' = tfstate)
        /\ last'.env.conn # "ok" => last'.execs = 0
        /\ last'.diag \in {"conn", "sql"} => tfstate' = tfstate
        /\ (last'.op # "Read" /\ last'.diag = "") => last'.verbs # {}]_vars

\* C9 happens: an Update met a failing statement after tracking a model, and
\* the model is still tracked.
C9_Witness ==
    /\ last.op = "Update"
    /\ last.env.sql # "ok"
    /\ last.diag = "sql"
    /\ last.conns = 1
    /\ last.execs = 1
    /\ tfstate # {}

\* C10: every call that reaches the factory gets one new handle and has
\* closed it when it returns, whether it succeeded, met an SQL error or
\* could not set the state; after any sequence of calls no handle is open,
\* a failed ping of the standard factory included.
C10_HandlesReleased ==
    /\ handles = 0
    /\ last.opened = last.closed
    /\ last.conns <= 1
    /\ last.opened <= last.conns
    /\ (last.op \in CRUD /\ last.diag \in {"", "sql", "set"}) =>
          (last.conns = 1 /\ last.opened = 1 /\ last.closed = 1)
    /\ (last.op \in CRUD /\ last.diag = "conn") => last.conns = 1

\* C10 happens: the standard factory opened a handle, its ping failed, and
\* the handle was closed before the call returned.
C10_Witness ==
    /\ getDB = "GetStandardPostgresGetter"
    /\ last.op \in CRUD
    /\ last.diag = "conn"
    /\ last.opened = 1
    /\ last.closed = 1
    /\ handles = 0

\* The model ImportState is to track for import ID id
Placeholder(k, id) ==
    CASE k \in {"bypassrls", "replication"} -> [role |-> id, enabled |-> FALSE]
      [] k = "connection_limit" -> [role |-> id, connection_limit |-> -1]
      [] k = "statement_timeout" -> [role |-> id, timeout |-> <<"0", "s">>]
      [] k = "audit" -> [role |-> id, audit_log_option |-> <<"none">>]

\* C11: ImportState of each resource tracks the import ID as the role and a
\* fixed placeholder as the attribute (enabled false, connection_limit -1,
\* timeout 0s, audit_log_option none), and opens no connection and sends no
\* statement.
C11_ImportSetsPlaceholder ==
    /\ tfstate = {} =>
          \A id \in RoleInputs :
              LET r == ImportState(kind, id, db) IN
              /\ r.diag = ""
              /\ r.state = {Placeholder(kind, id)}
              /\ r.db = db
              /\ r.conns = 0 /\ r.opened = 0 /\ r.closed = 0
              /\ r.execs = 0 /\ r.verbs = {}
    /\ last.op = "ImportState" =>
          /\ last.diag = ""
          /\ last.conns = 0 /\ last.opened = 0 /\ last.execs = 0
          /\ \E id \in RoleInputs : tfstate = {Placeholder(kind, id)}

\* C11 happens: a role that exists with a statement_timeout of 5s was
\* imported, and 0s is tracked for it.
C11_Witness ==
    /\ kind = "statement_timeout"
    /\ last.op = "ImportState"
    /\ tfstate = {[role |-> <<"x">>, timeout |-> <<"0", "s">>]}
    /\ <<"x">> \in DOMAIN db
    /\ <<"statement_timeout=", "5", "s">> \in db[<<"x">>].rolconfig

\* The role a successful call was made for: the one tracked after a Create
\* or an Update, the one tracked before a Delete
Targets(op, before, after) ==
    {m.role : m \in (IF op = "Delete" THEN before ELSE after)}

\* C12: the role name is quoted in every statement so that, for every role
\* name (names with a double quote, a backslash or a semicolon included), a
\* statement that succeeds alters exactly that role and nothing else.
C12_AltersExactlyThatRole ==
    [][(last'.op \in {"Create", "Update", "Delete"} /\ last'.diag = "")
       => \A t \in Targets(last'.op, tfstate, tfstate') :
             /\ last'.verbs = {"ALTER"}
             /\ t \in DOMAIN db'
             /\ DOMAIN db' = DOMAIN db
             /\ \A r \in DOMAIN db \ {t} : db'[r] = db[r]]_vars

\* the value a plan asks for, as a tracked model holds it
Planned(k, plan) ==
    IF k \in {"bypassrls", "replication"} THEN plan.enabled
    ELSE {Tracked(k, plan)}

\* C15: a successful Create or Update has executed one statement, an ALTER
\* ROLE, made no other query, and tracks the role and the value of the plan;
\* a call that failed leaves the tracked state as it was.
C15_PlanBecomesState ==
    \A c \in PlanCallsNow :
        /\ c.r.diag = "" =>
              /\ c.r.execs = 1
              /\ c.r.verbs = {"ALTER"}
              /\ c.r.state # {}
              /\ \A m \in c.r.state :
                    /\ m.role = c.plan.role
                    /\ Planned(kind, c.plan) = {Tracked(kind, m)}
        /\ c.r.diag # "" => c.r.state = tfstate

\* C16: a Read leaves the database as it is, and a successful Read of a role
\* that exists keeps the tracked role and tracks the value the role's
\* attribute has in the database at that time.
C16_ReadReflectsDatabase ==
    [][last'.op = "Read" =>
          /\ db' = db
          /\ last'.diag = "" =>
                \A m \in tfstate : \A n \in tfstate' :
                    /\ n.role = m.role
                    /\ m.role \in DOMAIN db =>
                          Tracked(kind, n) = Actual(kind, db[m.role])]_vars

\* the statement_timeout entries of a role's configuration, none when the
\* role does not exist
TimeoutRows(role) ==
    IF role \in DOMAIN db THEN Attr("statement_timeout", db[role]) ELSE {}

\* C17: a statement_timeout Read whose query returns no row tracks "0s"
\* without a diagnostic; one whose query returns statement_timeout=<v> tracks
\* exactly <v>; one whose query fails otherwise ends with a diagnostic and
\* the tracked state as it was.
C17_TimeoutRead ==
    [][(kind = "statement_timeout" /\ last'.op = "Read") =>
          \A m \in tfstate :
              /\ (last'.env = HappyEnv /\ TimeoutRows(m.role) = {}) =>
                    /\ last'.diag = ""
                    /\ tfstate' = {[role |-> m.role, timeout |-> <<"0", "s">>]}
              /\ (last'.env = HappyEnv /\ TimeoutRows(m.role) # {}) =>
                    /\ last'.diag = ""
                    /\ \A e \in TimeoutRows(m.role) :
                          tfstate' = {[role |-> m.role, timeout |-> Tail(e)]}
              /\ last'.env.sql = "err" =>
                    /\ last'.diag # ""
                    /\ tfstate' = tfstate]_vars

\* C17 happens: a Read after an import found statement_timeout=5s and tracks
\* 5s in place of the placeholder.
C17_Witness ==
    /\ kind = "statement_timeout"
    /\ last.op = "Read" /\ last.diag = "" /\ last.prev = "ImportState"
    /\ tfstate = {[role |-> <<"x">>, timeout |-> <<"5", "s">>]}
    /\ <<"statement_timeout=", "5", "s">> \in TimeoutRows(<<"x">>)

\* C18: a Read of a bypassrls, replication, connection_limit or audit
\* instance whose role is not in pg_roles ends with an error diagnostic, the
\* query's own when nothing else fails, and leaves the tracked state and the
\* database as they were.
C18_MissingRoleIsFatal ==
    [][(kind \in {"bypassrls", "replication", "connection_limit", "audit"}
        /\ last'.op = "Read") =>
          \A m \in tfstate :
              m.role \notin DOMAIN db =>
                  /\ last'.diag # ""
                  /\ last'.env = HappyEnv => last'.diag = "sql"
                  /\ tfstate' = tfstate
                  /\ db' = db]_vars

\* C18 happens: a Read of a pgrole_bypassrls instance that tracks a role
\* which does not exist has failed on its query.
C18_Witness ==
    /\ kind = "bypassrls"
    /\ last.op = "Read" /\ last.diag = "sql" /\ last.env = HappyEnv
    /\ tfstate # {}
    /\ \A m \in tfstate : m.role \notin DOMAIN db

\* the roles a step has dropped or altered
Changed(before, after) ==
    {r \in DOMAIN before : r \notin DOMAIN after \/ after[r] # before[r]}

\* C22: a Create, Update or Delete of a resource changes nothing but its own
\* attribute of the role it is made for: every role is still there, the
\* attributes of the other four resources are unchanged on every role, at
\* most one role is changed, and after a call without a diagnostic that
\* role is the one the call was made for.
C22_OnlyOwnAttribute ==
    [][last'.op \in {"Create", "Update", "Delete"} =>
          /\ \A r \in DOMAIN db :
                /\ r \in DOMAIN db'
                /\ \A k \in Kinds \ {kind} : Attr(k, db'[r]) = Attr(k, db[r])
          /\ Cardinality(Changed(db, db')) <= 1
          /\ last'.diag = "" =>
                Changed(db, db') \subseteq Targets(last'.op, tfstate, tfstate')]_vars

\* C23: an Update without a diagnostic that moves the tracked state to
\* another role changes no role but the new one; the role tracked before is
\* still there with every attribute as it was.
C23_UpdateLeavesOldRole ==
    [][(last'.op = "Update" /\ last'.diag = "") =>
          \A m \in tfstate : \A n \in tfstate' :
              n.role # m.role =>
                  /\ Changed(db, db') \subseteq {n.role}
                  /\ m.role \in DOMAIN db =>
                        (m.role \in DOMAIN db' /\ db'[m.role] = db[m.role])]_vars

\* pgaudit.log as a new session of the provider's login role has it
SessionAuditLog ==
    IF \E e \in db[SessionUser].rolconfig : e[1] = "pgaudit.log="
    THEN {Tail(e) : e \in {f \in db[SessionUser].rolconfig : f[1] = "pgaudit.log="}}
    ELSE {<<"none">>}

TimeoutReadOf(role, tracked) ==
    Read("statement_timeout", [role |-> role, timeout |-> tracked], db, getDB, HappyEnv)

\* C25: a statement_timeout Read of a role that is not in the database ends
\* without a diagnostic and tracks "0s"; apart from the role name its answer
\* is the answer for a role that exists and has no statement_timeout.
C25_MissingRoleReadsZero ==
    kind = "statement_timeout" =>
        \A r \in RoleInputs \ DOMAIN db : \A t \in {<<"0", "s">>, <<"5", "s">>} :
            /\ TimeoutReadOf(r, t).diag = ""
            /\ TimeoutReadOf(r, t).state = {[role |-> r, timeout |-> <<"0", "s">>]}
            /\ \A e \in {x \in DOMAIN db : TimeoutRows(x) = {}} :
                  /\ TimeoutReadOf(e, t).state = {[role |-> e, timeout |-> <<"0", "s">>]}
                  /\ [TimeoutReadOf(e, t) EXCEPT !.state = {}]
                        = [TimeoutReadOf(r, t) EXCEPT !.state = {}]

\* C25 happens: a Read of an instance whose role is not in the database
\* has tracked 0s without a diagnostic, while a role
\* without a statement_timeout exists.
C25_Witness ==
    /\ kind = "statement_timeout"
    /\ last.op = "Read" /\ last.diag = "" /\ last.env = HappyEnv
    /\ \E r \in RoleInputs \ DOMAIN db : tfstate = {[role |-> r, timeout |-> <<"0", "s">>]}
    /\ \E e \in DOMAIN db : TimeoutRows(e) = {}

\* C26: a Create or Update that ended without a diagnostic, made once more
\* with the same plan, leaves the database and the tracked state as the
\* first call left them; so does a Delete made once more.
C26_Idempotent ==
    /\ \A c \in PlanCallsNow :
          c.r.diag = "" =>
              LET again == IF c.op = "Create"
                           THEN Create(kind, c.plan, {}, c.r.db, getDB, HappyEnv)
                           ELSE Update(kind, c.plan, c.r.state, c.r.db, getDB, HappyEnv)
              IN  again.db = c.r.db /\ again.state = c.r.state
    /\ \A s \in tfstate :
          LET once == Delete(kind, s, db, getDB, HappyEnv)
              again == Delete(kind, s, once.db, getDB, HappyEnv)
          IN  once.diag = "" => (again.db = once.db /\ again.state = once.state)

\* one or more digits and then s
DigitsThenS(t) ==
    /\ Len(t) >= 2
    /\ t[Len(t)] = "s"
    /\ \A i \in 1 .. Len(t) - 1 :
          t[i] \in {"0", "1", "2", "3", "4", "5", "6", "7", "8", "9"}

RECURSIVE BeforeQuote(_)
BeforeQuote(v) ==
    IF v = <<>> \/ Head(v) = SQ THEN <<>> ELSE <<Head(v)>> \o BeforeQuote(Tail(v))

\* C28: the statement the audit resource sends for a role that exists sets,
\* for every option without a single quote, pgaudit.log of that role to the
\* option and changes nothing else; for an option with a single quote the
\* string constant ends at the quote, so the option is never what is set.
C28_OptionSetVerbatim ==
    \A plan \in {p \in AuditPlans : p.role \in DOMAIN db} :
        LET x == PgExec(db, sqlSetAuditLog(plan.role, plan.audit_log_option))
            set == [db EXCEPT ![plan.role].rolconfig =
                       {e \in @ : e[1] # "pgaudit.log="}
                       \cup {<<"pgaudit.log=">> \o plan.audit_log_option}]
        IN  IF BeforeQuote(plan.audit_log_option) = plan.audit_log_option
            THEN x.ok /\ x.db = set
            ELSE x.db # set

----------------------------------------------------------------------------
(* The provider's Configure *)

\* A configuration value: unknown, null, or known with its value.
Unknown(zero) == [k |-> "unknown", v |-> zero]
Null(zero) == [k |-> "null", v |-> zero]
Known(v) == [k |-> "known", v |-> v]

IsUnknown(a) == a.k = "unknown"
IsNull(a) == a.k = "null"

\* the configurations tried; username is Required, so never null
Configs ==
    [project_id : {Unknown(""), Null(""), Known(""), Known("my-project")},
     region : {Unknown(""), Null(""), Known("my-region")},
     instance : {Unknown(""), Null(""), Known("my-instance")},
     database : {Unknown(""), Null(""), Known(""), Known("my-database")},
     username : {Unknown(""), Known(""), Known("my-username")},
     impersonate_service_account : {Unknown(""), Null(""), Known("sa@my-project")},
     host : {Unknown(""), Null(""), Known(""), Known("localhost")},
     port : {Unknown(0), Null(0), Known(6543)},
     password : {Unknown(""), Null(""), Known("secret")},
     sslmode : {Unknown(""), Null(""), Known("require")}]

ConfigAttributes ==
    <<"project_id", "region", "instance", "database", "username",
      "impersonate_service_account", "host", "port", "password", "sslmode">>

\* The unknown checks as an if / else-if chain: the first unknown only.
UnknownDiags_firstOnly(c) ==
    LET u == {j \in 1 .. Len(ConfigAttributes) : IsUnknown(c[ConfigAttributes[j]])}
    IN  {<<ConfigAttributes[i], "unknown " \o ConfigAttributes[i]>> :
            i \in {j \in u : \A k \in u : j <= k}}

\* "Check for unknown values in configuration": one attribute error each
UnknownDiags(c) ==
    {<<ConfigAttributes[i], "unknown " \o ConfigAttributes[i]>> :
        i \in {j \in 1 .. Len(ConfigAttributes) : IsUnknown(c[ConfigAttributes[j]])}}

\* Extract without the IsNull test: the zero value of an omitted attribute.
Extract_noDefault(a, default) == a.v

\* "Extract values from configuration": the default unless the value is set
Extract(a, default) == IF IsNull(a) THEN default ELSE a.v

\* The Cloud SQL checks as an if / else-if chain: the first empty value only.
MissingDiags_firstOnly(projectID, region, instance, database, username) ==
    IF projectID = "" THEN {<<"project_id", "missing project_id">>}
    ELSE IF region = "" THEN {<<"region", "missing region">>}
    ELSE IF instance = "" THEN {<<"instance", "missing instance">>}
    ELSE IF database = "" THEN {<<"database", "missing database">>}
    ELSE IF username = "" THEN {<<"username", "missing username">>}
    ELSE {}

\* the Cloud SQL branch's checks: one attribute error for each empty value
MissingDiags(projectID, region, instance, database, username) ==
    (IF projectID = "" THEN {<<"project_id", "missing project_id">>} ELSE {})
    \cup (IF region = "" THEN {<<"region", "missing region">>} ELSE {})
    \cup (IF instance = "" THEN {<<"instance", "missing instance">>} ELSE {})
    \cup (IF database = "" THEN {<<"database", "missing database">>} ELSE {})
    \cup (IF username = "" THEN {<<"username", "missing username">>} ELSE {})

\* Configure with the Cloud SQL checks made before host is looked at.
Configure_cloudChecksFirst(c) ==
    LET projectID == Extract(c.project_id, "")
        region == Extract(c.region, "")
        instance == Extract(c.instance, "")
        database == Extract(c.database, "postgres")
        username == Extract(c.username, "")
        impersonateServiceAccount == Extract(c.impersonate_service_account, "")
        host == Extract(c.host, "")
        port == Extract(c.port, 5432)
        password == Extract(c.password, "")
        sslmode == Extract(c.sslmode, "disable")
        missing == MissingDiags(projectID, region, instance, database, username)
        standard ==
            [getter |-> "GetStandardPostgresGetter",
             dsn |-> <<"postgres://", username, ":", password, "@", host, ":",
                       ToString(port), "/", database, "?sslmode=", sslmode>>,
             target |-> ""]
        url == <<"gcppostgres://", username, "@", projectID, "/", region, "/",
                 instance, "/", database>>
        cloud ==
            IF impersonateServiceAccount # ""
            THEN [getter |-> "GetDatabaseGetterWithImpersonation", dsn |-> url,
                  target |-> impersonateServiceAccount]
            ELSE [getter |-> "GetDatabaseGetter", dsn |-> url, target |-> ""]
    IN  IF UnknownDiags(c) # {}
        THEN [diags |-> UnknownDiags(c), ResourceData |-> {}, DataSourceData |-> {}]
        ELSE IF missing # {}
        THEN [diags |-> missing, ResourceData |-> {}, DataSourceData |-> {}]
        ELSE IF host # ""
        THEN [diags |-> {}, ResourceData |-> {standard}, DataSourceData |-> {standard}]
        ELSE [diags |-> {}, ResourceData |-> {cloud}, DataSourceData |-> {cloud}]

\* Configure taking the Cloud SQL branch whenever an impersonation target is
\* given, host or no host.
Configure_impersonationFirst(c) ==
    LET projectID == Extract(c.project_id, "")
        region == Extract(c.region, "")
        instance == Extract(c.instance, "")
        database == Extract(c.database, "postgres")
        username == Extract(c.username, "")
        impersonateServiceAccount == Extract(c.impersonate_service_account, "")
        host == Extract(c.host, "")
        port == Extract(c.port, 5432)
        password == Extract(c.password, "")
        sslmode == Extract(c.sslmode, "disable")
        missing == MissingDiags(projectID, region, instance, database, username)
        standard ==
            [getter |-> "GetStandardPostgresGetter",
             dsn |-> <<"postgres://", username, ":", password, "@", host, ":",
                       ToString(port), "/", database, "?sslmode=", sslmode>>,
             target |-> ""]
        url == <<"gcppostgres://", username, "@", projectID, "/", region, "/",
                 instance, "/", database>>
        cloud ==
            IF impersonateServiceAccount # ""
            THEN [getter |-> "GetDatabaseGetterWithImpersonation", dsn |-> url,
                  target |-> impersonateServiceAccount]
            ELSE [getter |-> "GetDatabaseGetter", dsn |-> url, target |-> ""]
    IN  IF UnknownDiags(c) # {}
        THEN [diags |-> UnknownDiags(c), ResourceData |-> {}, DataSourceData |-> {}]
        ELSE IF host # "" /\ impersonateServiceAccount = ""
        THEN [diags |-> {}, ResourceData |-> {standard}, DataSourceData |-> {standard}]
        ELSE IF missing # {}
        THEN [diags |-> missing, ResourceData |-> {}, DataSourceData |-> {}]
        ELSE [diags |-> {}, ResourceData |-> {cloud}, DataSourceData |-> {cloud}]

\* [diags, ResourceData, DataSourceData]; the data is {} or {the factory}
Configure(c) ==
    LET projectID == Extract(c.project_id, "")
        region == Extract(c.region, "")
        instance == Extract(c.instance, "")
        database == Extract(c.database, "postgres")
        username == Extract(c.username, "")
        impersonateServiceAccount == Extract(c.impersonate_service_account, "")
        host == Extract(c.host, "")
        port == Extract(c.port, 5432)
        password == Extract(c.password, "")
        sslmode == Extract(c.sslmode, "disable")
        missing == MissingDiags(projectID, region, instance, database, username)
        standard ==
            [getter |-> "GetStandardPostgresGetter",
             dsn |-> <<"postgres://", username, ":", password, "@", host, ":",
                       ToString(port), "/", database, "?sslmode=", sslmode>>,
             target |-> ""]
        url == <<"gcppostgres://", username, "@", projectID, "/", region, "/",
                 instance, "/", database>>
        cloud ==
            IF impersonateServiceAccount # ""
            THEN [getter |-> "GetDatabaseGetterWithImpersonation", dsn |-> url,
                  target |-> impersonateServiceAccount]
            ELSE [getter |-> "GetDatabaseGetter", dsn |-> url, target |-> ""]
    IN  IF UnknownDiags(c) # {}
        THEN [diags |-> UnknownDiags(c), ResourceData |-> {}, DataSourceData |-> {}]
        ELSE IF host # ""
        THEN [diags |-> {}, ResourceData |-> {standard}, DataSourceData |-> {standard}]
        ELSE IF missing # {}
        THEN [diags |-> missing, ResourceData |-> {}, DataSourceData |-> {}]
        ELSE [diags |-> {}, ResourceData |-> {cloud}, DataSourceData |-> {cloud}]

NoResp == [diags |-> {<<"", "not configured">>}, ResourceData |-> {}, DataSourceData |-> {}]

InitConfigure ==
    /\ kind = "none"
    /\ getDB = "none"
    /\ db = InitDB
    /\ tfstate = {}
    /\ last = NoCall
    /\ handles = 0
    /\ config \in Configs
    /\ resp = NoResp
    /\ running = <<>>
    /\ rowver = <<>>

CallConfigure ==
    /\ resp = NoResp
    /\ resp' = Configure(config)
    /\ UNCHANGED <<kind, getDB, db, tfstate, last, handles, config, running, rowver>>

NextConfigure == CallConfigure

SpecConfigure == InitConfigure /\ [][NextConfigure]_vars

----------------------------------------------------------------------------
(* Properties of Configure, checked under SpecConfigure *)

\* an attribute given a value that is not empty
Populated(a) == a.k = "known" /\ a.v # ""

\* an attribute that has a default: left out, or given a value
PopulatedOrDefault(a) == IsNull(a) \/ Populated(a)

HostSet(c) == Populated(c.host)

StandardFull(c) ==
    /\ Populated(c.host)
    /\ Populated(c.username)
    /\ Populated(c.password)
    /\ ~IsUnknown(c.port)
    /\ PopulatedOrDefault(c.database)
    /\ PopulatedOrDefault(c.sslmode)

CloudFull(c) ==
    /\ Populated(c.project_id)
    /\ Populated(c.region)
    /\ Populated(c.instance)
    /\ Populated(c.username)
    /\ PopulatedOrDefault(c.database)

\* C7: Configure publishes a factory only when the standard fields or the
\* Cloud SQL fields are fully populated; a partially populated configuration
\* gets attribute-scoped errors and no factory.
C7_OnlyFullyPopulated ==
    resp # NoResp =>
        /\ resp.ResourceData # {} => (StandardFull(config) \/ CloudFull(config))
        /\ (~StandardFull(config) /\ ~CloudFull(config)) =>
              /\ resp.ResourceData = {} /\ resp.DataSourceData = {}
              /\ resp.diags # {}
              /\ \A d \in resp.diags : \E i \in DOMAIN ConfigAttributes :
                    d[1] = ConfigAttributes[i]

\* The configurations that differ from c at most in the Cloud SQL fields,
\* each left out or given a value, or one of more
CloudVariants(c, more) ==
    {[c EXCEPT !.project_id = v[1], !.region = v[2], !.instance = v[3],
               !.impersonate_service_account = v[4]] :
        v \in ({Null(""), Known(""), Known("my-project")} \cup more)
              \X ({Null(""), Known("my-region")} \cup more)
              \X ({Null(""), Known("my-instance")} \cup more)
              \X ({Null(""), Known("sa@my-project")} \cup more)}

CloudUnknown(c) ==
    \E f \in {"project_id", "region", "instance", "impersonate_service_account"} :
        IsUnknown(c[f])

\* A published factory is the standard one exactly when host is set.
VariantByHost ==
    /\ resp.ResourceData = resp.DataSourceData
    /\ Cardinality(resp.ResourceData) <= 1
    /\ \A f \in resp.ResourceData :
          f.getter = "GetStandardPostgresGetter" <=> HostSet(config)

\* C8 as stated: the factory is the standard one if and only if host is a
\* non-empty string, and with host set the Cloud SQL fields (project_id,
\* region, instance, impersonate_service_account) have no effect on the
\* factory or on validation.
C8_CloudFieldsWithoutEffect ==
    resp # NoResp =>
        /\ VariantByHost
        /\ HostSet(config) =>
              \A c2 \in CloudVariants(config, {Unknown("")}) :
                  Configure(c2) = resp

\* C8, amended: a published factory is the standard one if and only if
\* host is a non-empty string; with host set and no Cloud SQL field unknown
\* the values of the Cloud SQL fields have no effect on the factory or on
\* validation, while an unknown Cloud SQL field is reported and no factory
\* is published.
C8_CloudValuesWithoutEffect ==
    resp # NoResp =>
        /\ VariantByHost
        /\ (HostSet(config) /\ ~CloudUnknown(config)) =>
              \A c2 \in CloudVariants(config, {}) : Configure(c2) = resp
        /\ (HostSet(config) /\ CloudUnknown(config)) =>
              (resp.ResourceData = {} /\ resp.diags # {})

\* C8 happens: every Cloud SQL field is populated, host is set, and the
\* standard factory is published.
C8_Witness ==
    /\ resp # NoResp
    /\ HostSet(config)
    /\ Populated(config.project_id)
    /\ Populated(config.region)
    /\ Populated(config.instance)
    /\ Populated(config.impersonate_service_account)
    /\ \E f \in resp.ResourceData : f.getter = "GetStandardPostgresGetter"

\* the value an attribute is documented to have: the one given, else the default
Given(a, default) == IF a.k = "known" THEN a.v ELSE default

\* C14: in the connection string of a published factory the database is the
\* one given, else "postgres"; in the standard connection string the port is
\* the one given, else 5432, and the sslmode the one given, else "disable".
C14_DefaultsUnlessGiven ==
    \A f \in resp.ResourceData \cup resp.DataSourceData :
        /\ f.dsn[10] = Given(config.database, "postgres")
        /\ f.getter = "GetStandardPostgresGetter" =>
              /\ f.dsn[8] = ToString(Given(config.port, 5432))
              /\ f.dsn[12] = Given(config.sslmode, "disable")

\* C14 happens: a standard factory built from an omitted sslmode, a given
\* port and a database given as the empty string.
C14_Witness ==
    /\ IsNull(config.sslmode)
    /\ config.port = Known(6543)
    /\ config.database = Known("")
    /\ \E f \in resp.ResourceData :
          /\ f.getter = "GetStandardPostgresGetter"
          /\ f.dsn[8] = "6543"
          /\ f.dsn[12] = "disable"

\* the attributes of a configuration that are unknown
UnknownAttributes(c) == {a \in DOMAIN c : c[a].k = "unknown"}

\* C19: when attributes are unknown, Configure reports an attribute error on
\* each of them, on no other attribute, and publishes no factory.
C19_UnknownsAllReported ==
    (resp # NoResp /\ UnknownAttributes(config) # {}) =>
        /\ \A a \in DOMAIN config :
              a \in UnknownAttributes(config) <=> \E d \in resp.diags : d[1] = a
        /\ Cardinality(resp.diags) = Cardinality(UnknownAttributes(config))
        /\ \A d \in resp.diags : d[2] = "unknown " \o d[1]
        /\ resp.ResourceData = {}
        /\ resp.DataSourceData = {}

\* C19 happens: host, port and sslmode are unknown, three errors are
\* reported and nothing is published.
C19_Witness ==
    /\ resp # NoResp
    /\ UnknownAttributes(config) = {"host", "port", "sslmode"}
    /\ resp.diags = {<<"host", "unknown host">>, <<"port", "unknown port">>,
                     <<"sslmode", "unknown sslmode">>}
    /\ resp.ResourceData = {}

\* the attributes the Cloud SQL connection needs that are empty: left out or
\* given as the empty string, database (which has a default) only the latter
EmptyCloudAttributes(c) ==
    {a \in {"project_id", "region", "instance", "username"} : ~Populated(c[a])}
    \cup {a \in {"database"} : ~PopulatedOrDefault(c[a])}

Impersonating(c) == ~HostSet(c) /\ Populated(c.impersonate_service_account)

\* the factory published, if any, is chosen by host and by the target
FactoryByHostAndTarget ==
    \A f \in resp.ResourceData \cup resp.DataSourceData :
        /\ f.getter = "GetDatabaseGetterWithImpersonation" <=> Impersonating(config)
        /\ f.getter = "GetDatabaseGetter" <=>
              (~HostSet(config) /\ ~Populated(config.impersonate_service_account))
        /\ f.target = IF Impersonating(config)
                      THEN config.impersonate_service_account.v ELSE ""

\* C21 as stated: the impersonating factory if and only if host is empty and
\* impersonate_service_account is not, the direct Cloud SQL factory with
\* host empty and no target, and with host set impersonate_service_account
\* is ignored: whatever it is, Configure answers the same.
C21_ImpersonationIgnoredWithHost ==
    /\ FactoryByHostAndTarget
    /\ (resp # NoResp /\ HostSet(config)) =>
          \A v \in {Unknown(""), Null(""), Known(""), Known("sa@my-project")} :
              Configure([config EXCEPT !.impersonate_service_account = v]) = resp

\* C21, amended: a published factory is the impersonating one, with the given target,
\* if and only if host is empty and impersonate_service_account is not; with
\* host empty and no target it is the direct Cloud SQL one; with host set
\* the answer of Configure is the same whatever impersonation target is
\* given or left out, while an unknown target is reported and nothing is
\* published.
C21_ImpersonationByHostAndTarget ==
    /\ FactoryByHostAndTarget
    /\ (resp # NoResp /\ IsUnknown(config.impersonate_service_account)) =>
          /\ resp.ResourceData = {}
          /\ <<"impersonate_service_account", "unknown impersonate_service_account">>
                \in resp.diags
    /\ (resp # NoResp /\ HostSet(config)
        /\ ~IsUnknown(config.impersonate_service_account)) =>
          \A v \in {Null(""), Known(""), Known("sa@my-project")} :
              Configure([config EXCEPT !.impersonate_service_account = v]) = resp

\* C21 happens: host is given as the empty string with a target
\* and the impersonating factory is published.
C21_Witness ==
    /\ config.host = Known("")
    /\ config.impersonate_service_account = Known("sa@my-project")
    /\ \E f \in resp.ResourceData :
          /\ f.getter = "GetDatabaseGetterWithImpersonation"
          /\ f.target = "sa@my-project"

----------------------------------------------------------------------------
(* Calls of several resource instances at once.  Terraform walks the plan   *)
(* graph with several resource instances in flight; each call is getDB,    *)
(* one statement, State.Set and the deferred Close.  The instances share    *)
(* the factory and the database, nothing else.                              *)

Instances == {1, 2}

ConcRoles == {<<"test">>, <<"x">>}

\* the plans an instance of kind k may be called with
ConcPlans(k, role) ==
    CASE k \in {"bypassrls", "replication"} ->
            {[role |-> role, enabled |-> {b}] : b \in BOOLEAN}
      [] k = "connection_limit" -> {[role |-> role, connection_limit |-> 50]}
      [] k = "statement_timeout" -> {[role |-> role, timeout |-> <<"5", "s">>]}
      [] k = "audit" -> {[role |-> role, audit_log_option |-> <<"all">>]}

\* One call of an instance of kind k for a role: a Create from no state, or
\* an Update, a Read or a Delete from the state an import left.
Tasks(k) ==
    UNION {{[kind |-> k, op |-> "Create", role |-> role, plan |-> plan, prior |-> {}] :
                plan \in ConcPlans(k, role)}
           \cup {[kind |-> k, op |-> op, role |-> role, plan |-> plan,
                  prior |-> ImportState(k, role, InitDB).state] :
                    op \in {"Update", "Read", "Delete"}, plan \in ConcPlans(k, role)} :
           role \in ConcRoles}

\* The call of task t as the resource's method makes it, on database d
Call(t, d, g, env) ==
    CASE t.op = "Create" -> Create(t.kind, t.plan, t.prior, d, g, env)
      [] t.op = "Update" -> Update(t.kind, t.plan, t.prior, d, g, env)
      [] t.op = "Read" -> Read(t.kind, CHOOSE m \in t.prior : TRUE, d, g, env)
      [] t.op = "Delete" -> Delete(t.kind, CHOOSE m \in t.prior : TRUE, d, g, env)

\* ALTER ROLE with a role attribute rewrites the role's row of pg_authid
\* without a lock on the role: it fetches the row, then updates it, and the
\* update fails ("tuple concurrently updated") when another session has
\* rewritten the row in between.  ALTER ROLE ... SET / RESET locks the role
\* and is one step.
RewritesAuthid(t) ==
    t.op # "Read" /\ t.kind \in {"bypassrls", "replication", "connection_limit"}

InitConcurrent ==
    /\ kind = "none"
    /\ getDB = "GetStandardPostgresGetter"
    /\ db = InitDB
    /\ tfstate = {}
    /\ last = NoCall
    /\ handles = 0
    /\ config = NoConfig
    /\ resp = NoConfig
    /\ rowver = [r \in DOMAIN InitDB |-> 0]
    /\ \E k1 \in Kinds, k2 \in Kinds : \E t1 \in Tasks(k1), t2 \in Tasks(k2) :
          /\ k1 # k2 \/ t1.role # t2.role
          /\ running = <<[task |-> t1, pc |-> "start", seen |-> 0, diag |-> "",
                           state |-> {}],
                          [task |-> t2, pc |-> "start", seen |-> 0, diag |-> "",
                           state |-> {}]>>

\* db, err := r.getDB(ctx)
ConcGetDB(i) ==
    /\ running[i].pc = "start"
    /\ F(getDB, "ok").handle
    /\ handles' = handles + F(getDB, "ok").opened
    /\ running' = [running EXCEPT ![i].pc = "opened"]
    /\ UNCHANGED <<kind, getDB, db, tfstate, last, config, resp, rowver>>

\* db.ExecContext, first half: the server fetches the role's row
ConcFetch(i) ==
    /\ running[i].pc = "opened"
    /\ RewritesAuthid(running[i].task)
    /\ running' = [running EXCEPT ![i].pc = "fetched",
                                  ![i].seen = rowver[running[i].task.role]]
    /\ UNCHANGED <<kind, getDB, db, tfstate, last, handles, config, resp, rowver>>

\* The update of a row that another session has rewritten since the fetch
Stale(i) ==
    /\ RewritesAuthid(running[i].task)
    /\ rowver[running[i].task.role] # running[i].seen

\* The statement's answer r becomes the state of the database and of the call.
ConcAnswer(i, r) ==
    /\ db' = r.db
    /\ rowver' = IF RewritesAuthid(running[i].task) /\ r.verbs # {}
                 THEN [rowver EXCEPT ![running[i].task.role] = @ + 1]
                 ELSE rowver
    /\ running' = [running EXCEPT ![i].pc = "executed", ![i].diag = r.diag,
                                  ![i].state = r.state]
    /\ UNCHANGED <<kind, getDB, tfstate, last, handles, config, resp>>

\* db.ExecContext or QueryRowContext: the statement takes effect or fails
ConcStatement(i) ==
    /\ \/ running[i].pc = "fetched"
       \/ running[i].pc = "opened" /\ ~RewritesAuthid(running[i].task)
    /\ ConcAnswer(i, Call(running[i].task, db, getDB,
                          IF Stale(i) THEN [HappyEnv EXCEPT !.sql = "err"]
                          ELSE HappyEnv))

\* resp.State.Set, return, and the deferred db.Close()
ConcReturn(i) ==
    /\ running[i].pc = "executed"
    /\ running' = [running EXCEPT ![i].pc = "done"]
    /\ handles' = handles - 1
    /\ UNCHANGED <<kind, getDB, db, tfstate, last, config, resp, rowver>>

NextConcurrent ==
    \E i \in Instances :
        \/ ConcGetDB(i)
        \/ ConcFetch(i)
        \/ ConcStatement(i)
        \/ ConcReturn(i)

SpecConcurrent == InitConcurrent /\ [][NextConcurrent]_vars

\* The database and the two instances' answers when the call of instance i
\* runs to its end before the call of instance j begins
InOrder(i, j) ==
    LET ri == Call(running[i].task, InitDB, getDB, HappyEnv)
        rj == Call(running[j].task, ri.db, getDB, HappyEnv)
    IN  /\ db = rj.db
        /\ running[i].diag = ri.diag /\ running[i].state = ri.state
        /\ running[j].diag = rj.diag /\ running[j].state = rj.state

\* C13: calls of different resource instances that run at once share only
\* the read-only factory, and every interleaving of two calls that target
\* different attributes or different roles ends in the database and the
\* tracked states of one of the two sequential orders.
C13_EndsAsSomeSequentialOrder ==
    (\A i \in Instances : running[i].pc = "done") =>
        /\ handles = 0
        /\ InOrder(1, 2) \/ InOrder(2, 1)

====
